---- MODULE Spec2Model ----
(***************************************************************************)
(* Model of src/app.py: the OAuth2 token lifecycle of the MTD VAT sandbox  *)
(* client (session token store, code exchange, refresh, ensure_token),     *)
(* the authenticated request wrappers api_get / api_post, and the script   *)
(* that Streamlit reruns top to bottom on every interaction (callback      *)
(* routing, login card, the three VAT handlers).                           *)
(*                                                                         *)
(* The provider (token endpoint, resource endpoints), the clock and the    *)
(* user are the environment: their answers, delays and clicks are drawn    *)
(* from small sets.  Time is in seconds, as time.time() is.                *)
(***************************************************************************)
EXTENDS Integers, Sequences, FiniteSets, TLC

(***************************************************************************)
(* Bounds of the model.                                                    *)
(***************************************************************************)
\* How many times in a session the user lets a long time pass between two
\* interactions.
MaxWaits == 1
\* How many token-endpoint calls of a session take the whole timeout.
MaxSlowCalls == 1

(***************************************************************************)
(* Program constants.                                                      *)
(***************************************************************************)
\* ensure_token: "refresh if expiring in < 60s".
MARGIN == 60
\* tokens.get("expires_in", 3600)
DEFAULT_EXPIRES_IN == 3600
\* requests.post(..., timeout=30)
TIMEOUT == 30

(***************************************************************************)
(* Python values.                                                          *)
(***************************************************************************)
None == "None"
NoExc == "no exception"

\* Python truthiness of an optional string: None and "" are falsy.
Truthy(v) == v # None /\ v # ""

\* A JSON number and a JSON string holding digits (as some providers send
\* "expires_in": "3600"); float + str raises TypeError.
JInt(n) == [type |-> "int", val |-> n]
JStr(n) == [type |-> "str", val |-> n]

EmptyDict == [k \in {} |-> None]

\* dict.get(key, default)
Get(d, key, default) == IF key \in DOMAIN d THEN d[key] ELSE default

(***************************************************************************)
(* The environment's answers.                                              *)
(***************************************************************************)
AccessTokens == {"", "A1", "A2"}
RefreshTokens == {None, "R1", "R2"}
ExpiresIns == {JInt(MARGIN), JInt(DEFAULT_EXPIRES_IN), JStr(DEFAULT_EXPIRES_IN)}

\* Decoded JSON bodies of a token response: every key may be missing.
TokenBodies ==
  { a @@ r @@ e :
      a \in {EmptyDict} \cup {[access_token |-> t] : t \in AccessTokens},
      r \in {EmptyDict} \cup {[refresh_token |-> t] : t \in RefreshTokens},
      e \in {EmptyDict} \cup {[expires_in |-> t] : t \in ExpiresIns} }

\* What requests.post to /oauth/token comes back with: a transport error
\* (connection failure, timeout), or a response with a status and a body.
TokenResponses ==
  {[transport_error |-> TRUE, status_code |-> 0, json |-> EmptyDict]}
  \cup {[transport_error |-> FALSE, status_code |-> 400, json |-> EmptyDict]}
  \cup {[transport_error |-> FALSE, status_code |-> 200, json |-> b] : b \in TokenBodies}

JsonText == "{\"ok\": true}"
RawText == "INVALID_REQUEST"

\* r.json() succeeds on JsonText only.
IsJson(text) == text = JsonText

\* What requests.get / requests.post to a resource endpoint comes back with:
\* a transport error, or a response with a status and a body text.
ApiResponses ==
  {[transport_error |-> TRUE, status_code |-> 0, text |-> ""]}
  \cup { [transport_error |-> FALSE, status_code |-> x[1], text |-> x[2]] :
           x \in {<<200, JsonText>>, <<201, JsonText>>, <<201, RawText>>, <<400, RawText>>} }

\* A token-endpoint call returns at once or takes the whole timeout.
Delays == {0, TIMEOUT}

\* A long wait: a token issued for the default lifetime just before it is one
\* timeout short of the margin after it, and a slow call then takes it to
\* exactly the margin.
LongWait == DEFAULT_EXPIRES_IN - MARGIN - TIMEOUT

\* Response.raise_for_status(): HTTPError for 4xx and 5xx.
RaisesForStatus(status_code) == status_code >= 400 /\ status_code < 600

(***************************************************************************)
(* Token exchanger.  Each returns [exc, json]: the exception raised by     *)
(* requests.post or raise_for_status, or the decoded body.                 *)
(***************************************************************************)
exchange_code_for_token(code, resp) ==
  IF resp.transport_error THEN [exc |-> "RequestException", json |-> EmptyDict]
  ELSE IF RaisesForStatus(resp.status_code) THEN [exc |-> "HTTPError", json |-> EmptyDict]
  ELSE [exc |-> NoExc, json |-> resp.json]

\* refresh_access_token without its raise_for_status() line.
refresh_access_token_no_raise(refresh_token, resp) ==
  IF resp.transport_error THEN [exc |-> "RequestException", json |-> EmptyDict]
  ELSE [exc |-> NoExc, json |-> resp.json]

refresh_access_token(refresh_token, resp) ==
  IF resp.transport_error THEN [exc |-> "RequestException", json |-> EmptyDict]
  ELSE IF RaisesForStatus(resp.status_code) THEN [exc |-> "HTTPError", json |-> EmptyDict]
  ELSE [exc |-> NoExc, json |-> resp.json]

(***************************************************************************)
(* Token guard.                                                            *)
(***************************************************************************)
\* The first test with its comparison the wrong way round.
TokenIsFresh_reversed(ss, t) ==
  Truthy(ss.access_token) /\ t > ss.token_expiry - MARGIN

\* The first test of ensure_token, at clock reading t.
TokenIsFresh(ss, t) ==
  Truthy(ss.access_token) /\ t < ss.token_expiry - MARGIN

\* The second test left out.
HasRefreshToken_unchecked(ss) == TRUE

\* The second test of ensure_token.
HasRefreshToken(ss) == Truthy(ss.refresh_token)

\* The refresh install with the response's expires_in ignored.
install_refreshed_default_lifetime(ss, tokens, t) ==
  IF "access_token" \notin DOMAIN tokens
  THEN [exc |-> "KeyError", ss |-> ss]
  ELSE [exc |-> NoExc,
        ss |-> [access_token |-> tokens["access_token"],
                refresh_token |-> Get(tokens, "refresh_token", ss.refresh_token),
                token_expiry |-> t + DEFAULT_EXPIRES_IN]]

\* The refresh install with the callback's refresh_token lookup, which
\* defaults to None instead of the stored token.
install_refreshed_forget_refresh(ss, tokens, t) ==
  IF "access_token" \notin DOMAIN tokens
  THEN [exc |-> "KeyError", ss |-> ss]
  ELSE LET s1 == [ss EXCEPT !.access_token = tokens["access_token"]]
           s2 == [s1 EXCEPT !.refresh_token = Get(tokens, "refresh_token", None)]
           e  == Get(tokens, "expires_in", JInt(DEFAULT_EXPIRES_IN))
       IN IF e.type # "int"
          THEN [exc |-> "TypeError", ss |-> s2]
          ELSE [exc |-> NoExc, ss |-> [s2 EXCEPT !.token_expiry = t + e.val]]

\* The three assignments after a refresh, in order; the first and the third
\* may raise and leave the earlier ones done.  t is the clock when the third
\* runs.  Returns [exc, ss].
install_refreshed(ss, tokens, t) ==
  IF "access_token" \notin DOMAIN tokens
  THEN [exc |-> "KeyError", ss |-> ss]
  ELSE LET s1 == [ss EXCEPT !.access_token = tokens["access_token"]]
           s2 == [s1 EXCEPT !.refresh_token = Get(tokens, "refresh_token", ss.refresh_token)]
           e  == Get(tokens, "expires_in", JInt(DEFAULT_EXPIRES_IN))
       IN IF e.type # "int"
          THEN [exc |-> "TypeError", ss |-> s2]
          ELSE [exc |-> NoExc, ss |-> [s2 EXCEPT !.token_expiry = t + e.val]]

\* A token response never received (no refresh was made).
NoTokenResponse == [transport_error |-> FALSE, status_code |-> 0, json |-> EmptyDict]

\* ensure_token() called at clock reading t; resp and d are the token
\* endpoint's answer and the time it takes, used only if a refresh is made.
\* Returns
\*   ss0, t0        the session store and the clock at the call
\*   ret            the value returned (a token or None) when exc = NoExc
\*   exc            the exception that left the function, or NoExc
\*   ss, now        the session store and the clock afterwards
\*   refresh_calls  the number of refresh exchanges made
\*   resp           the token endpoint's answer to the refresh, when one was made
ensure_token(ss, t, resp, d) ==
  LET unchanged == [ss0 |-> ss, t0 |-> t, ret |-> None, exc |-> NoExc, ss |-> ss,
                    now |-> t, refresh_calls |-> 0, resp |-> NoTokenResponse]
  IN IF TokenIsFresh(ss, t)
     THEN [unchanged EXCEPT !.ret = ss.access_token]
     ELSE IF HasRefreshToken(ss)
     THEN LET r == refresh_access_token(ss.refresh_token, resp)
              i == install_refreshed(ss, r.json, t + d)
              called == [unchanged EXCEPT !.refresh_calls = 1, !.resp = resp, !.now = t + d]
          IN IF r.exc # NoExc THEN [called EXCEPT !.exc = r.exc]
             ELSE IF i.exc # NoExc THEN [called EXCEPT !.exc = i.exc, !.ss = i.ss]
             ELSE [called EXCEPT !.ret = i.ss.access_token, !.ss = i.ss]
     ELSE unchanged

(***************************************************************************)
(* Fraud prevention headers and the authenticated request wrappers.        *)
(***************************************************************************)
\* The device id is a fresh uuid4 on every call; its value is not modelled.
fraud_prevention_headers ==
  [ x \in {"Gov-Client-Public-IP", "Gov-Client-Public-Port", "Gov-Client-User-Agent",
           "Gov-Client-Device-Id", "Gov-Vendor-Product-Name", "Gov-Vendor-Version",
           "Gov-Vendor-License-IDs", "Gov-Client-Timezone"} |->
      CASE x = "Gov-Client-Public-IP" -> "203.0.113.42"
        [] x = "Gov-Client-Public-Port" -> "443"
        [] x = "Gov-Client-User-Agent" -> "vat-sandbox/0.1.0 (Streamlit)"
        [] x = "Gov-Client-Device-Id" -> "uuid4"
        [] x = "Gov-Vendor-Product-Name" -> "vat-sandbox"
        [] x = "Gov-Vendor-Version" -> "vat-sandbox=0.1.0"
        [] x = "Gov-Vendor-License-IDs" -> "default"
        [] x = "Gov-Client-Timezone" -> "UTC" ]

NoRequest == [method |-> "", path |-> "", headers |-> EmptyDict]
NoResponse == [transport_error |-> FALSE, status_code |-> 0, text |-> ""]

\* What a wrapper call did:
\*   op, path        the wrapper and the path it was called with
\*   ensure          the result of its ensure_token() call
\*   exc             the exception that left the wrapper, or NoExc
\*   resource_calls  the number of requests sent to the resource endpoint
\*   request         the request sent, sent_with the session store at that time
\*   answer          the resource endpoint's answer to it
\*   response        the response returned to the caller when exc = NoExc
\*   ss, now         the session store and the clock afterwards
\* env is the environment of the call: the token endpoint's answer and delay
\* (used if a refresh is made) and the resource endpoint's answer (used if
\* it is called).
\* api_get without its "if not token" test.
api_get_unchecked(ss, t, path, env) ==
  LET e == ensure_token(ss, t, env.tok, env.tok_delay)
      headers == [Authorization |-> "Bearer " \o e.ret, Accept |-> "application/json"]
                   @@ fraud_prevention_headers
      unsent == [op |-> "api_get", path |-> path, ensure |-> e, exc |-> e.exc,
                 resource_calls |-> 0, request |-> NoRequest, sent_with |-> e.ss,
                 answer |-> NoResponse, response |-> NoResponse, ss |-> e.ss, now |-> e.now]
  IN IF e.exc # NoExc THEN unsent
     ELSE [unsent EXCEPT
             !.resource_calls = 1,
             !.request = [method |-> "GET", path |-> path, headers |-> headers],
             !.answer = env.api,
             !.exc = IF env.api.transport_error THEN "RequestException" ELSE NoExc,
             !.response = IF env.api.transport_error THEN NoResponse ELSE env.api]

\* api_post with an r.raise_for_status() before its return.
api_post_raising(ss, t, path, env) ==
  LET e == ensure_token(ss, t, env.tok, env.tok_delay)
      headers == [Authorization |-> "Bearer " \o e.ret, Accept |-> "application/json"]
                   @@ [x \in {"Content-Type"} |-> "application/json"]
                   @@ fraud_prevention_headers
      unsent == [op |-> "api_post", path |-> path, ensure |-> e, exc |-> e.exc,
                 resource_calls |-> 0, request |-> NoRequest, sent_with |-> e.ss,
                 answer |-> NoResponse, response |-> NoResponse, ss |-> e.ss, now |-> e.now]
  IN IF e.exc # NoExc THEN unsent
     ELSE IF ~Truthy(e.ret) THEN [unsent EXCEPT !.exc = "RuntimeError"]
     ELSE [unsent EXCEPT
             !.resource_calls = 1,
             !.request = [method |-> "POST", path |-> path, headers |-> headers],
             !.answer = env.api,
             !.exc = IF env.api.transport_error THEN "RequestException"
                     ELSE IF RaisesForStatus(env.api.status_code) THEN "HTTPError"
                     ELSE NoExc,
             !.response = IF env.api.transport_error \/ RaisesForStatus(env.api.status_code)
                          THEN NoResponse ELSE env.api]

\* Lines 107-117.
api_get(ss, t, path, env) ==
  LET e == ensure_token(ss, t, env.tok, env.tok_delay)
      headers == [Authorization |-> "Bearer " \o e.ret, Accept |-> "application/json"]
                   @@ fraud_prevention_headers
      unsent == [op |-> "api_get", path |-> path, ensure |-> e, exc |-> e.exc,
                 resource_calls |-> 0, request |-> NoRequest, sent_with |-> e.ss,
                 answer |-> NoResponse, response |-> NoResponse, ss |-> e.ss, now |-> e.now]
  IN IF e.exc # NoExc THEN unsent
     ELSE IF ~Truthy(e.ret) THEN [unsent EXCEPT !.exc = "RuntimeError"]
     ELSE [unsent EXCEPT
             !.resource_calls = 1,
             !.request = [method |-> "GET", path |-> path, headers |-> headers],
             !.answer = env.api,
             !.exc = IF env.api.transport_error THEN "RequestException" ELSE NoExc,
             !.response = IF env.api.transport_error THEN NoResponse ELSE env.api]

\* Lines 119-130.
api_post(ss, t, path, env) ==
  LET e == ensure_token(ss, t, env.tok, env.tok_delay)
      headers == [Authorization |-> "Bearer " \o e.ret, Accept |-> "application/json"]
                   @@ [x \in {"Content-Type"} |-> "application/json"]
                   @@ fraud_prevention_headers
      unsent == [op |-> "api_post", path |-> path, ensure |-> e, exc |-> e.exc,
                 resource_calls |-> 0, request |-> NoRequest, sent_with |-> e.ss,
                 answer |-> NoResponse, response |-> NoResponse, ss |-> e.ss, now |-> e.now]
  IN IF e.exc # NoExc THEN unsent
     ELSE IF ~Truthy(e.ret) THEN [unsent EXCEPT !.exc = "RuntimeError"]
     ELSE [unsent EXCEPT
             !.resource_calls = 1,
             !.request = [method |-> "POST", path |-> path, headers |-> headers],
             !.answer = env.api,
             !.exc = IF env.api.transport_error THEN "RequestException" ELSE NoExc,
             !.response = IF env.api.transport_error THEN NoResponse ELSE env.api]

NoEnsure ==
  [ss0 |-> EmptyDict, t0 |-> 0, ret |-> None, exc |-> NoExc, ss |-> EmptyDict, now |-> 0,
   refresh_calls |-> 0, resp |-> NoTokenResponse]

NoCall ==
  [op |-> "none", path |-> "", ensure |-> NoEnsure, exc |-> NoExc, resource_calls |-> 0,
   request |-> NoRequest, sent_with |-> EmptyDict, answer |-> NoResponse,
   response |-> NoResponse, ss |-> EmptyDict, now |-> 0]

(***************************************************************************)
(* The script's blocks.  Each is a function of the session store, the      *)
(* clock and the environment's answers; `shown` is what it renders, in     *)
(* order.  An exception that leaves a block ends the script run: Streamlit *)
(* shows the traceback and renders nothing further.                        *)
(***************************************************************************)
El(kind, status_code, text) == [kind |-> kind, status_code |-> status_code, text |-> text]

Uncaught(exc) == El("exception", 0, exc)

\* The callback block with time.time() left out of the expiry.
callback_routing_relative_expiry(ss, t, code, resp, d) ==
  LET r == exchange_code_for_token(code, resp)
      tokens == r.json
      e  == Get(tokens, "expires_in", JInt(DEFAULT_EXPIRES_IN))
      failed(exc) ==
        [ss0 |-> ss, t0 |-> t, exc |-> exc, ss |-> ss, now |-> t + d, resp |-> resp,
         shown |-> <<El("subheader", 0, "Completing OAuth Sign-in"),
                     El("error", 0, "Token exchange failed")>>]
  IN IF r.exc # NoExc THEN failed(r.exc)
     ELSE IF "access_token" \notin DOMAIN tokens THEN failed("KeyError")
     ELSE IF e.type # "int" THEN failed("TypeError")
     ELSE [ss0 |-> ss, t0 |-> t, exc |-> NoExc, now |-> t + d, resp |-> resp,
           ss |-> [access_token |-> tokens["access_token"],
                   refresh_token |-> Get(tokens, "refresh_token", None),
                   token_expiry |-> e.val],
           shown |-> <<El("subheader", 0, "Completing OAuth Sign-in"),
                       El("success", 0, "Signed in with HMRC Sandbox"),
                       El("markdown", 0, "You can now access VAT API endpoints below.")>>]

\* Lines 136-146, run at clock reading t with session store ss; resp and d
\* are the token endpoint's answer and the time it takes.  Returns
\*   ss0, t0   the session store and the clock when the block started
\*   exc       the exception caught by the except clause, or NoExc
\*   ss, now   the session store and the clock afterwards
\*   resp      the token endpoint's answer
\*   shown     what the block rendered
callback_routing(ss, t, code, resp, d) ==
  LET r == exchange_code_for_token(code, resp)
      tokens == r.json
      s1 == [ss EXCEPT !.access_token = tokens["access_token"]]
      s2 == [s1 EXCEPT !.refresh_token = Get(tokens, "refresh_token", None)]
      e  == Get(tokens, "expires_in", JInt(DEFAULT_EXPIRES_IN))
      s3 == [s2 EXCEPT !.token_expiry = (t + d) + e.val]
      failed(exc, ssx) ==
        [ss0 |-> ss, t0 |-> t, exc |-> exc, ss |-> ssx, now |-> t + d, resp |-> resp,
         shown |-> <<El("subheader", 0, "Completing OAuth Sign-in"),
                     El("error", 0, "Token exchange failed")>>]
  IN IF r.exc # NoExc THEN failed(r.exc, ss)
     ELSE IF "access_token" \notin DOMAIN tokens THEN failed("KeyError", ss)
     ELSE IF e.type # "int" THEN failed("TypeError", s2)
     ELSE [ss0 |-> ss, t0 |-> t, exc |-> NoExc, ss |-> s3, now |-> t + d, resp |-> resp,
           shown |-> <<El("subheader", 0, "Completing OAuth Sign-in"),
                       El("success", 0, "Signed in with HMRC Sandbox"),
                       El("markdown", 0, "You can now access VAT API endpoints below.")>>]

\* CLIENT_ID and CLIENT_SECRET come from the deployment's secrets.
HasSecrets == TRUE

\* Lines 151-165.  Returns [stopped, shown].
login_card(ss) ==
  IF ~Truthy(ss.access_token)
  THEN [stopped |-> TRUE,
        shown |-> <<El("info", 0, "Connect to HMRC Sandbox with OAuth 2.0"),
                    IF HasSecrets THEN El("link_button", 0, "Sign in with HMRC Sandbox")
                    ELSE El("error", 0, "Missing CLIENT_ID / CLIENT_SECRET")>>]
  ELSE [stopped |-> FALSE,
        shown |-> <<El("success", 0, "Connected to HMRC Sandbox")>>]

\* Lines 175-181 (the body of "if st.button(...)").  Returns [call, shown,
\* crashed]: the wrapper call, what was rendered, and whether an exception
\* left the block.
fetch_obligations(ss, t, env) ==
  LET c == api_get(ss, t, "/organisations/vat/{vrn}/obligations", env)
      r == c.response
  IN IF c.exc # NoExc
     THEN [call |-> c, shown |-> <<Uncaught(c.exc)>>, crashed |-> TRUE]
     ELSE IF ~RaisesForStatus(r.status_code) /\ IsJson(r.text)
     THEN [call |-> c, crashed |-> FALSE,
           shown |-> <<El("json", r.status_code, r.text),
                       El("caption", 0, "Use an open obligation's periodKey")>>]
     ELSE [call |-> c, crashed |-> FALSE,
           shown |-> <<El("error", r.status_code, r.text)>>]

\* Lines 210-224 (the body of "if submit").
submit_vat_return(ss, t, env) ==
  LET c == api_post(ss, t, "/organisations/vat/{vrn}/returns", env)
      r == c.response
      outgoing == <<El("subheader", 0, "Outgoing JSON"), El("code", 0, "payload")>>
  IN IF c.exc # NoExc
     THEN [call |-> c, shown |-> outgoing \o <<Uncaught(c.exc)>>, crashed |-> TRUE]
     ELSE IF r.status_code \in {200, 201}
     THEN IF IsJson(r.text)
          THEN [call |-> c, crashed |-> FALSE,
                shown |-> outgoing \o <<El("success", r.status_code, "Return accepted"),
                                        El("json", r.status_code, r.text)>>]
          ELSE [call |-> c, crashed |-> TRUE,
                shown |-> outgoing \o <<El("success", r.status_code, "Return accepted"),
                                        Uncaught("JSONDecodeError")>>]
     ELSE [call |-> c, crashed |-> FALSE,
           shown |-> outgoing \o <<El("error", r.status_code, ""),
                                   El("code", r.status_code, r.text)>>]

\* Lines 231-236 (the body of "if st.button(...)").
fetch_liabilities(ss, t, env) ==
  LET c == api_get(ss, t, "/organisations/vat/{vrn}/liabilities", env)
      r == c.response
  IN IF c.exc # NoExc
     THEN [call |-> c, shown |-> <<Uncaught(c.exc)>>, crashed |-> TRUE]
     ELSE IF ~RaisesForStatus(r.status_code) /\ IsJson(r.text)
     THEN [call |-> c, crashed |-> FALSE, shown |-> <<El("json", r.status_code, r.text)>>]
     ELSE [call |-> c, crashed |-> FALSE, shown |-> <<El("error", r.status_code, r.text)>>]

(***************************************************************************)
(* State.                                                                  *)
(***************************************************************************)
VARIABLES
  session_state,  \* st.session_state: access_token, refresh_token, token_expiry
  now,            \* time.time()
  query_code,     \* whether st.query_params holds "code" (fixed for a session)
  pc,             \* where the script run is: idle between runs, or the next block
  clicked,        \* the button whose click started this run, or None
  clickable,      \* the buttons the last run rendered
  buttons,        \* the buttons rendered so far by this run
  screen,         \* what this run has rendered so far
  crashed,        \* whether this run ended in an uncaught exception
  cb,             \* the callback block, if the last step ran it, as callback_routing returned it
  call,           \* the wrapper call, if the last step made one, as api_get / api_post returned it
  exchanged,      \* the token response this run's callback block installed, if any
  waited,         \* long waits so far
  slow            \* slow token-endpoint calls so far

vars == <<session_state, now, query_code, pc, clicked, clickable, buttons, screen,
          crashed, cb, call, exchanged, waited, slow>>

NoCallback == [ss0 |-> EmptyDict, t0 |-> 0, exc |-> NoExc, ss |-> EmptyDict, now |-> 0,
               resp |-> NoTokenResponse, shown |-> <<>>, ran |-> FALSE]

Init ==
  /\ session_state = [access_token |-> None, refresh_token |-> None, token_expiry |-> 0]
  /\ now = 0
  /\ query_code \in BOOLEAN
  /\ pc = "idle"
  /\ clicked = None
  /\ clickable = {}
  /\ buttons = {}
  /\ screen = <<>>
  /\ crashed = FALSE
  /\ cb = NoCallback
  /\ call = NoCall
  /\ exchanged = EmptyDict
  /\ waited = 0
  /\ slow = 0

\* The delays a token-endpoint call can take once `n` calls were slow.
DelaysAfter(n) == IF n < MaxSlowCalls THEN Delays ELSE {0}

\* The token endpoint answers only a request that is made: the answers a
\* refresh draws from when ensure_token would make one here, else a placeholder.
AnyTokenResponse == [transport_error |-> TRUE, status_code |-> 0, json |-> EmptyDict]
AnyApiResponse == [transport_error |-> TRUE, status_code |-> 0, text |-> ""]

RefreshAnswers(ss, t, n) ==
  IF ensure_token(ss, t, AnyTokenResponse, 0).refresh_calls > 0
  THEN TokenResponses \X DelaysAfter(n)
  ELSE {<<AnyTokenResponse, 0>>}

ApiAnswers(ss, t, tok) ==
  IF api_get(ss, t, "", [tok |-> tok[1], tok_delay |-> tok[2],
                         api |-> AnyApiResponse]).resource_calls > 0
  THEN ApiResponses
  ELSE {AnyApiResponse}

\* The environments one wrapper call can meet in session store ss at time t.
\* The time a resource call takes is counted in the user's next wait.
EnvsAt(ss, t, n) ==
  UNION { { [tok |-> tok[1], tok_delay |-> tok[2], api |-> api] :
              api \in ApiAnswers(ss, t, tok) } :
          tok \in RefreshAnswers(ss, t, n) }

Slow(d) == IF d > 0 THEN 1 ELSE 0

(***************************************************************************)
(* Actions: the user's interaction that starts a script run, then the      *)
(* script's blocks in source order.                                        *)
(***************************************************************************)
\* The user interacts (loads the page, changes an input, clicks a button),
\* at once or after a long wait, and the script starts over.
Rerun(long) ==
  /\ pc = "idle"
  /\ long => waited < MaxWaits
  /\ now' = IF long THEN now + LongWait ELSE now
  /\ waited' = IF long THEN waited + 1 ELSE waited
  /\ pc' = "routing"
  /\ clickable' = buttons
  /\ buttons' = {}
  /\ clicked' = None
  /\ screen' = <<>>
  /\ crashed' = FALSE
  /\ cb' = NoCallback
  /\ call' = NoCall
  /\ exchanged' = EmptyDict
  /\ UNCHANGED <<session_state, query_code, slow>>

\* Lines 135-146.
CallbackRouting ==
  /\ pc = "routing"
  /\ IF query_code
     THEN \E resp \in TokenResponses, d \in DelaysAfter(slow) :
            LET r == callback_routing(session_state, now, "code", resp, d)
            IN /\ session_state' = r.ss
               /\ now' = r.now
               /\ slow' = slow + Slow(d)
               /\ screen' = screen \o r.shown
               /\ cb' = r @@ [ran |-> TRUE]
               /\ exchanged' = IF r.exc = NoExc THEN resp.json ELSE EmptyDict
     ELSE /\ cb' = NoCallback
          /\ UNCHANGED <<session_state, now, slow, screen, exchanged>>
  /\ pc' = "login"
  /\ call' = NoCall
  /\ UNCHANGED <<query_code, clicked, clickable, buttons, crashed, waited>>

\* Lines 151-165: st.stop() ends the run when there is no access token.
\* Past the card the script reads its widgets: the interaction that started
\* the run was a click on one of the buttons the last run rendered, or none.
LoginCard ==
  /\ pc = "login"
  /\ LET r == login_card(session_state)
     IN /\ screen' = screen \o r.shown
        /\ pc' = IF r.stopped THEN "idle" ELSE "obligations"
        /\ IF r.stopped THEN clicked' = None ELSE clicked' \in {None} \cup clickable
  /\ cb' = NoCallback
  /\ call' = NoCall
  /\ UNCHANGED <<session_state, now, query_code, clickable, buttons, crashed, exchanged,
                 waited, slow>>

\* The body of a handler whose button was clicked, as `r` returned by
\* fetch_obligations, submit_vat_return or fetch_liabilities.
RunBody(r, next, env) ==
  /\ session_state' = r.call.ss
  /\ now' = r.call.now
  /\ slow' = slow + Slow(r.call.now - now)
  /\ call' = r.call
  /\ screen' = screen \o r.shown
  /\ crashed' = r.crashed
  /\ pc' = IF r.crashed THEN "idle" ELSE next

SkipBody(next) ==
  /\ pc' = next
  /\ call' = NoCall
  /\ UNCHANGED <<session_state, now, slow, screen, crashed>>

\* Lines 170-181.
FetchObligations ==
  /\ pc = "obligations"
  /\ buttons' = buttons \cup {"obligations"}
  /\ IF clicked = "obligations"
     THEN \E env \in EnvsAt(session_state, now, slow) :
            RunBody(fetch_obligations(session_state, now, env), "submit", env)
     ELSE SkipBody("submit")
  /\ cb' = NoCallback
  /\ UNCHANGED <<query_code, clicked, clickable, exchanged, waited>>

\* Lines 186-224.
SubmitVatReturn ==
  /\ pc = "submit"
  /\ buttons' = buttons \cup {"submit"}
  /\ IF clicked = "submit"
     THEN \E env \in EnvsAt(session_state, now, slow) :
            RunBody(submit_vat_return(session_state, now, env), "liabilities", env)
     ELSE SkipBody("liabilities")
  /\ cb' = NoCallback
  /\ UNCHANGED <<query_code, clicked, clickable, exchanged, waited>>

\* Lines 229-236.
FetchLiabilities ==
  /\ pc = "liabilities"
  /\ buttons' = buttons \cup {"liabilities"}
  /\ IF clicked = "liabilities"
     THEN \E env \in EnvsAt(session_state, now, slow) :
            RunBody(fetch_liabilities(session_state, now, env), "idle", env)
     ELSE SkipBody("idle")
  /\ cb' = NoCallback
  /\ UNCHANGED <<query_code, clicked, clickable, exchanged, waited>>

Next ==
  \/ \E long \in BOOLEAN : Rerun(long)
  \/ CallbackRouting
  \/ LoginCard
  \/ FetchObligations
  \/ SubmitVatReturn
  \/ FetchLiabilities

Spec == Init /\ [][Next]_vars

(***************************************************************************)
(* The functions on their own, called in any order as tests call them:     *)
(* the callback block on a page load that carries a code, ensure_token,    *)
(* api_get and api_post, with long waits in between.  Each call works on   *)
(* the session store and leaves what it did in `cb` or `call` until the    *)
(* caller has looked at it.                                                *)
(***************************************************************************)
Called(c) ==
  /\ pc' = "called"
  /\ call' = c
  /\ session_state' = c.ss
  /\ now' = c.now
  /\ slow' = slow + Slow(c.now - now)
  /\ cb' = NoCallback
  /\ UNCHANGED <<query_code, clicked, clickable, buttons, screen, crashed, exchanged,
                 waited>>

CallCallback ==
  /\ pc = "idle"
  /\ query_code
  /\ \E resp \in TokenResponses, d \in DelaysAfter(slow) :
       LET r == callback_routing(session_state, now, "code", resp, d)
       IN /\ session_state' = r.ss
          /\ now' = r.now
          /\ slow' = slow + Slow(d)
          /\ cb' = r @@ [ran |-> TRUE]
  /\ pc' = "called"
  /\ UNCHANGED <<query_code, clicked, clickable, buttons, screen, crashed, call, exchanged,
                 waited>>

CallEnsureToken ==
  /\ pc = "idle"
  /\ \E env \in EnvsAt(session_state, now, slow) :
       LET e == ensure_token(session_state, now, env.tok, env.tok_delay)
       IN Called([NoCall EXCEPT !.op = "ensure_token", !.ensure = e, !.exc = e.exc,
                                !.sent_with = e.ss, !.ss = e.ss, !.now = e.now])

CallApiGet ==
  /\ pc = "idle"
  /\ \E env \in EnvsAt(session_state, now, slow) :
       Called(api_get(session_state, now, "/organisations/vat/{vrn}/liabilities", env))

CallApiPost ==
  /\ pc = "idle"
  /\ \E env \in EnvsAt(session_state, now, slow) :
       Called(api_post(session_state, now, "/organisations/vat/{vrn}/returns", env))

\* The caller has looked at what the call did.
CallReturns ==
  /\ pc = "called"
  /\ pc' = "idle"
  /\ call' = NoCall
  /\ cb' = NoCallback
  /\ UNCHANGED <<session_state, now, query_code, clicked, clickable, buttons, screen,
                 crashed, exchanged, waited, slow>>

LongWaitPasses ==
  /\ pc = "idle"
  /\ waited < MaxWaits
  /\ now' = now + LongWait
  /\ waited' = waited + 1
  /\ UNCHANGED <<session_state, query_code, pc, clicked, clickable, buttons, screen,
                 crashed, cb, call, exchanged, slow>>

UnitNext ==
  \/ CallCallback
  \/ CallEnsureToken
  \/ CallApiGet
  \/ CallApiPost
  \/ CallReturns
  \/ LongWaitPasses

UnitSpec == Init /\ [][UnitNext]_vars

(***************************************************************************)
(* Properties.  `call` and `cb` hold what the step just taken did, with    *)
(* the session store and the clock it started from, so each property is a  *)
(* predicate on the state that step leads to.                              *)
(***************************************************************************)
ObligationsPath == "/organisations/vat/{vrn}/obligations"

\* ensure_token ran as part of the step just taken, at clock E.t0 on store E.ss0.
E == call.ensure
EnsureRan == call.op # "none"
WrapperRan == call.op \in {"api_get", "api_post"}

\* The stored token is usable at the call: set, and more than the margin
\* before its expiry.
UsableAtCall == Truthy(E.ss0.access_token) /\ E.t0 < E.ss0.token_expiry - MARGIN

\* The token endpoint answered the refresh with a failure.
RefreshFailed == E.resp.transport_error \/ (E.resp.status_code >= 400 /\ E.resp.status_code < 600)

\* The token endpoint answered with a token response as the provider
\* documents it: an access_token, and expires_in a number or left out.
WellFormed(resp) ==
  /\ ~resp.transport_error
  /\ resp.status_code >= 200 /\ resp.status_code < 300
  /\ "access_token" \in DOMAIN resp.json
  /\ ("expires_in" \in DOMAIN resp.json => resp.json["expires_in"].type = "int")

Lifetime(json) ==
  IF "expires_in" \in DOMAIN json THEN json["expires_in"].val ELSE 3600

Shown(kind, status_code, text) ==
  \E i \in DOMAIN screen : screen[i] = El(kind, status_code, text)

\* C1: whenever ensure_token is called with an access token set and the clock
\* more than 60 s before the stored expiry, it returns exactly the stored
\* token, makes no refresh exchange, and leaves the session store as it was.
C1_FreshTokenReturnedUntouched ==
  (EnsureRan /\ UsableAtCall)
    => /\ E.exc = NoExc
       /\ E.ret = E.ss0.access_token
       /\ E.refresh_calls = 0
       /\ E.ss = E.ss0
       /\ session_state = E.ss0

\* A token issued for the default lifetime, asked for one timeout before it
\* enters the margin, with a refresh token at hand.
C1_Witness ==
  /\ call.op = "ensure_token"
  /\ UsableAtCall
  /\ Truthy(E.ss0.refresh_token)
  /\ E.t0 = E.ss0.token_expiry - MARGIN - TIMEOUT
  /\ E.ret = E.ss0.access_token

\* C2: whenever ensure_token is called with the access token missing or the
\* clock at or past 60 s before the stored expiry, and a refresh token is
\* stored, it makes exactly one refresh exchange; and if that exchange
\* answers with a token response, the store's access token is the returned
\* one, the expiry is the clock after the exchange plus expires_in (3600 when
\* left out), and the new access token is what ensure_token returns.
C2_StaleTokenRefreshedOnce ==
  (EnsureRan /\ ~UsableAtCall /\ Truthy(E.ss0.refresh_token))
    => /\ E.refresh_calls = 1
       /\ WellFormed(E.resp)
            => /\ E.exc = NoExc
               /\ E.ss.access_token = E.resp.json["access_token"]
               /\ E.ss.token_expiry = E.now + Lifetime(E.resp.json)
               /\ E.ret = E.resp.json["access_token"]

\* A token inside the margin but not yet expired is refreshed by a slow
\* exchange that grants a lifetime other than the default.
C2_Witness ==
  /\ EnsureRan
  /\ Truthy(E.ss0.access_token)
  /\ E.t0 >= E.ss0.token_expiry - MARGIN
  /\ E.t0 < E.ss0.token_expiry
  /\ WellFormed(E.resp)
  /\ E.now > E.t0
  /\ "expires_in" \in DOMAIN E.resp.json
  /\ E.ss.token_expiry = E.now + MARGIN
  /\ E.ss.access_token # E.ss0.access_token
  /\ E.ret = E.ss.access_token

\* C3: after a refresh inside ensure_token that was answered with a token
\* response, the stored refresh token is the one stored before if the
\* response has no refresh_token, and the response's if it has one.
C3_RefreshTokenKeptOrReplaced ==
  (EnsureRan /\ E.refresh_calls = 1 /\ WellFormed(E.resp))
    => E.ss.refresh_token =
         IF "refresh_token" \in DOMAIN E.resp.json
         THEN E.resp.json["refresh_token"]
         ELSE E.ss0.refresh_token

\* A refresh answered without a refresh_token: the access token changed and
\* the refresh token stayed.
C3_Witness ==
  /\ EnsureRan
  /\ E.refresh_calls = 1
  /\ E.exc = NoExc
  /\ "refresh_token" \notin DOMAIN E.resp.json
  /\ E.ss.access_token # E.ss0.access_token
  /\ E.ss.refresh_token = E.ss0.refresh_token
  /\ Truthy(E.ss.refresh_token)

\* C4: whenever ensure_token is called with access_token and refresh_token
\* both None, it returns None without raising, makes no refresh exchange and
\* leaves the session store as it was.
C4_NoTokenNoCall ==
  (EnsureRan /\ E.ss0.access_token = None /\ E.ss0.refresh_token = None)
    => /\ E.exc = NoExc
       /\ E.ret = None
       /\ E.refresh_calls = 0
       /\ E.ss = E.ss0
       /\ session_state = E.ss0

C4_Witness ==
  /\ call.op = "ensure_token"
  /\ E.ss0.access_token = None
  /\ E.ss0.refresh_token = None
  /\ E.ret = None
  /\ E.exc = NoExc

\* C5: a request api_get or api_post sends carries the token its
\* ensure_token call returned, and whenever that call returns no token the
\* wrapper raises RuntimeError("No access token") and sends no request.
C5_NoTokenNoRequest ==
  WrapperRan
    => /\ call.resource_calls > 0
            => /\ E.exc = NoExc
               /\ Truthy(E.ret)
               /\ call.request.headers["Authorization"] = "Bearer " \o E.ret
       /\ (E.exc = NoExc /\ ~Truthy(E.ret))
            => /\ call.exc = "RuntimeError"
               /\ call.resource_calls = 0
               /\ call.request = NoRequest

\* api_get called with an expired token and no refresh token.
C5_Witness ==
  /\ call.op = "api_get"
  /\ Truthy(E.ss0.access_token)
  /\ E.exc = NoExc
  /\ E.ret = None
  /\ call.exc = "RuntimeError"
  /\ call.resource_calls = 0

\* C6: whenever api_get or api_post sent its request and the resource
\* endpoint answered with a status outside 2xx, the wrapper returns that
\* answer (status and body) without raising and the session store is as it
\* was when the request was sent; the handler then shows an error with the
\* status and the raw body, and shows an answer of 201 with a JSON body as a
\* success with that JSON; neither ends the script run in an exception.
C6_RejectionReturnedAsData ==
  (WrapperRan /\ call.resource_calls = 1 /\ ~call.answer.transport_error)
    => /\ ~(call.answer.status_code \in 200..299)
            => /\ call.exc = NoExc
               /\ call.response = call.answer
               /\ call.ss = call.sent_with
               /\ session_state = call.sent_with
               /\ ~crashed
               /\ \E i \in DOMAIN screen :
                    /\ screen[i].kind = "error"
                    /\ screen[i].status_code = call.answer.status_code
               /\ \E i \in DOMAIN screen :
                    /\ screen[i].status_code = call.answer.status_code
                    /\ screen[i].text = call.answer.text
       /\ (call.answer.status_code = 201 /\ IsJson(call.answer.text))
            => /\ call.exc = NoExc
               /\ session_state = call.sent_with
               /\ ~crashed
               /\ Shown("json", 201, call.answer.text)
               /\ ~ \E i \in DOMAIN screen :
                      screen[i].kind = "error" /\ screen[i].status_code = 201
               /\ call.op = "api_post" => Shown("success", 201, "Return accepted")

\* A VAT return rejected with 400: shown as an error with the raw body.
C6_Witness ==
  /\ call.op = "api_post"
  /\ call.resource_calls = 1
  /\ call.answer.status_code = 400
  /\ call.response.status_code = 400
  /\ Shown("error", 400, "")
  /\ Shown("code", 400, RawText)
  /\ ~crashed

\* C7: when the callback block ran, either the exchange and the install
\* succeeded and the store holds the response's access token, its refresh
\* token and the expiry now + expires_in (3600 when left out), or an
\* exception was caught and the store is exactly as it was before.
C7_CallbackAllOrNothing ==
  cb.ran
    => IF cb.exc = NoExc
       THEN /\ cb.ss.access_token = cb.resp.json["access_token"]
            /\ "refresh_token" \in DOMAIN cb.resp.json
                 => cb.ss.refresh_token = cb.resp.json["refresh_token"]
            /\ cb.ss.token_expiry = cb.now + Lifetime(cb.resp.json)
            /\ session_state = cb.ss
       ELSE /\ cb.ss = cb.ss0
            /\ session_state = cb.ss0

\* C8: whenever the obligations handler calls api_get in a script run whose
\* callback block has just installed a token response with access token A,
\* a refresh token and expires_in = 3600, the request is sent, carries
\* Authorization: Bearer A, and no refresh exchange was made.
C8_FreshCodeTokenUsed ==
  (/\ call.op = "api_get"
   /\ call.path = ObligationsPath
   /\ exchanged # EmptyDict
   /\ "refresh_token" \in DOMAIN exchanged
   /\ Truthy(exchanged["refresh_token"])
   /\ "expires_in" \in DOMAIN exchanged
   /\ exchanged["expires_in"] = JInt(3600))
    => /\ E.refresh_calls = 0
       /\ call.resource_calls = 1
       /\ call.request.method = "GET"
       /\ call.request.path = ObligationsPath
       /\ call.request.headers["Authorization"] = "Bearer " \o exchanged["access_token"]

\* The exchange of the scenario (A1, R1, 3600), made late in a session, when
\* the clock is far from zero.
C8_Witness ==
  /\ call.op = "api_get"
  /\ call.path = ObligationsPath
  /\ exchanged # EmptyDict
  /\ "refresh_token" \in DOMAIN exchanged
  /\ exchanged["refresh_token"] = "R1"
  /\ "expires_in" \in DOMAIN exchanged
  /\ exchanged["expires_in"] = JInt(3600)
  /\ exchanged["access_token"] = "A1"
  /\ waited = 1
  /\ call.request.headers["Authorization"] = "Bearer A1"

\* C9: whenever a handler runs with no usable access token and no refresh
\* token, the run shows the prompt to sign in and does not end in an
\* uncaught exception.
C9_NoTokenPromptsLogin ==
  (WrapperRan /\ ~UsableAtCall /\ ~Truthy(E.ss0.refresh_token))
    => /\ ~crashed
       /\ Shown("info", 0, "Connect to HMRC Sandbox with OAuth 2.0")

\* C10: whenever the refresh made by ensure_token inside api_get or api_post
\* is answered with a failure (an error status or a transport error), that
\* error leaves the wrapper and ends the script run, no request is sent to
\* the resource endpoint, the refresh was made once, and the session store
\* is as it was.
C10_FailedRefreshAborts ==
  (WrapperRan /\ E.refresh_calls > 0 /\ RefreshFailed)
    => /\ call.exc = (IF E.resp.transport_error THEN "RequestException" ELSE "HTTPError")
       /\ crashed
       /\ pc = "idle"
       /\ call.resource_calls = 0
       /\ E.refresh_calls = 1
       /\ call.ss = E.ss0
       /\ session_state = E.ss0

\* A refresh answered 400 inside the Fetch Liabilities handler.
C10_Witness ==
  /\ call.op = "api_get"
  /\ call.path = "/organisations/vat/{vrn}/liabilities"
  /\ E.refresh_calls = 1
  /\ E.resp.status_code = 400
  /\ call.exc = "HTTPError"
  /\ crashed
====
